---- MODULE Spec2Model ----
(***************************************************************************)
(* rssget: concurrent retrieval of RSS channels, merge, ordering and       *)
(* rendering (src/src/main.rs, src/src/config.rs).                         *)
(*                                                                         *)
(* Option<T> is modelled as a sequence: <<>> is None, <<x>> is Some(x).    *)
(* Text is modelled as a sequence of lines, a line as a sequence of        *)
(* pieces; terminal colour escapes are left out.                           *)
(***************************************************************************)
EXTENDS Integers, Sequences, FiniteSets, TLC

\* Longest feed (number of <item> entries) the environment returns.
MaxFeedLen == 2

None == << >>
Some(x) == << x >>
IsSome(o) == Len(o) = 1
IsNone(o) == Len(o) = 0
Unwrap(o) == o[1]

Range(s) == { s[k] : k \in 1..Len(s) }

SeqsUpTo(S, n) == UNION { [1..k -> S] : k \in 0..n }

RECURSIVE Flatten(_)
Flatten(ss) == IF Len(ss) = 0 THEN << >> ELSE Head(ss) \o Flatten(Tail(ss))

\* Number of occurrences of x in s.
Count(s, x) == Cardinality({ k \in 1..Len(s) : s[k] = x })

(***************************************************************************)
(* config.rs                                                               *)
(***************************************************************************)
Orders == { "Date", "Channel" }

ItemConfigDefault ==
    [ hide_title |-> FALSE, hide_link |-> FALSE, hide_description |-> FALSE,
      hide_author |-> FALSE, hide_pub_date |-> FALSE, show_enclosure |-> FALSE ]

HideAll ==
    [ hide_title |-> TRUE, hide_link |-> TRUE, hide_description |-> TRUE,
      hide_author |-> TRUE, hide_pub_date |-> TRUE, show_enclosure |-> FALSE ]

ShowEnclosure ==
    [ hide_title |-> FALSE, hide_link |-> FALSE, hide_description |-> FALSE,
      hide_author |-> FALSE, hide_pub_date |-> TRUE, show_enclosure |-> TRUE ]

ChanConfig(url, max_items, item_config) ==
    [ url |-> url, max_items |-> max_items, item_config |-> item_config ]

UrlA == "https://a.example/rss"
UrlB == "https://b.example/feed.xml"

\* The channel lists a finalized configuration is drawn from.
ChannelLists ==
    { << >>,
      << ChanConfig(UrlA, None, None) >>,
      << ChanConfig(UrlA, Some(0), Some(ItemConfigDefault)) >>,
      << ChanConfig(UrlA, Some(1), Some(HideAll)),
         ChanConfig(UrlB, None, Some(ItemConfigDefault)) >>,
      << ChanConfig(UrlA, None, None),
         ChanConfig(UrlB, Some(2), Some(ShowEnclosure)) >> }

MaxChannels == CHOOSE n \in 0..8 :
    /\ \E l \in ChannelLists : Len(l) = n
    /\ \A l \in ChannelLists : Len(l) <= n

Sources == 1..MaxChannels

\* Config::validate
ValidateNoCheck(chans) == "Ok"
Validate(chans) == IF Len(chans) = 0 THEN "Err" ELSE "Ok"

(***************************************************************************)
(* Publication dates.  A date string is the tuple of its lexical fields    *)
(*   << weekday, day, month, year, hour, minute, second, zone >>           *)
(* ("Mon, 01 Jan 2024 00:00:00 +0000"); any other shape is text that is not *)
(* an RFC 2822 date.  A DateTime<FixedOffset> is [utc, offset] in seconds. *)
(***************************************************************************)
MonthNames ==
    << "Jan", "Feb", "Mar", "Apr", "May", "Jun",
       "Jul", "Aug", "Sep", "Oct", "Nov", "Dec" >>

\* Weekday names indexed by (days since 1970-01-01 + 4) % 7, Sunday first.
WeekdayNames == << "Sun", "Mon", "Tue", "Wed", "Thu", "Fri", "Sat" >>

ZoneOffsets == [ z \in { "+0000", "+0200", "-0500" } |->
                   CASE z = "+0000" -> 0
                     [] z = "+0200" -> 7200
                     [] z = "-0500" -> -18000 ]

MonthIndex(name) ==
    IF \E m \in 1..12 : MonthNames[m] = name
    THEN CHOOSE m \in 1..12 : MonthNames[m] = name
    ELSE 0

IsLeap(y) == (y % 4 = 0 /\ y % 100 # 0) \/ y % 400 = 0

DaysInMonth(y, m) ==
    CASE m \in { 4, 6, 9, 11 } -> 30
      [] m = 2 -> IF IsLeap(y) THEN 29 ELSE 28
      [] OTHER -> 31

\* Days since 1970-01-01 of the civil date y-m-d (proleptic Gregorian).
DaysFromCivil(y, m, d) ==
    LET yy  == IF m <= 2 THEN y - 1 ELSE y
        era == yy \div 400
        yoe == yy - era * 400
        mp  == IF m > 2 THEN m - 3 ELSE m + 9
        doy == (153 * mp + 2) \div 5 + d - 1
        doe == yoe * 365 + yoe \div 4 - yoe \div 100 + doy
    IN  era * 146097 + doe - 719468

\* DateTime::<FixedOffset>::parse_from_rfc2822(&d).ok()
\* (years outside 1900..2037 are not drawn: instants stay within 32 bits)
ParseRfc2822(d) ==
    IF Len(d) # 8 THEN None
    ELSE LET wd == d[1]  day == d[2]  mon == MonthIndex(d[3])  year == d[4]
             hh == d[5]  mm == d[6]   ss == d[7]               zone == d[8]
         IN  IF /\ mon # 0
                /\ year \in 1900..2037
                /\ day \in 1..DaysInMonth(year, mon)
                /\ hh \in 0..23 /\ mm \in 0..59 /\ ss \in 0..59
                /\ zone \in DOMAIN ZoneOffsets
                /\ WeekdayNames[((DaysFromCivil(year, mon, day) + 4) % 7) + 1] = wd
             THEN Some([ utc    |-> DaysFromCivil(year, mon, day) * 86400
                                    + hh * 3600 + mm * 60 + ss - ZoneOffsets[zone],
                         offset |-> ZoneOffsets[zone] ])
             ELSE None

(***************************************************************************)
(* rss::Item values the parser can hand over.                              *)
(***************************************************************************)
RawItem(title, link, description, author, pub_date, enclosure) ==
    [ title |-> title, link |-> link, description |-> description,
      author |-> author, pub_date |-> pub_date, enclosure |-> enclosure ]

Undated   == RawItem(Some("Undated note"), None, None, None, None, None)
BadDate   == RawItem(None, Some("https://a.example/2"), None, None,
                     Some(<< "2024-02-01T00:00:00Z" >>), None)
NewYear   == RawItem(Some("New year"), Some("https://a.example/3"),
                     Some("Fireworks"), Some("ann@a.example"),
                     Some(<< "Mon", 1, "Jan", 2024, 0, 0, 0, "+0000" >>),
                     Some([ url |-> "https://a.example/3.mp3" ]))
March     == RawItem(Some("March"), None, None, Some("bob@b.example"),
                     Some(<< "Fri", 1, "Mar", 2024, 2, 0, 0, "+0200" >>), None)

RawItems == { Undated, BadDate, NewYear, March }

\* The item lists a feed can carry.  The feed at UrlB is well-formed: every
\* publication date it carries is an RFC 2822 date.
Feeds(url) ==
    SeqsUpTo(IF url = UrlA THEN RawItems ELSE RawItems \ { BadDate }, MaxFeedLen)

\* The channel title the feed at a url carries.
ChanTitle(url) == IF url = UrlA THEN "A News" ELSE "B Weekly"

(***************************************************************************)
(* DisplayItem                                                             *)
(***************************************************************************)
\* DisplayItem::new
NewEpochOnBadDate(item, chan_title, conf) ==
    [ chan_title |-> chan_title, conf |-> conf,
      title |-> item.title, link |-> item.link,
      description |-> item.description, author |-> item.author,
      pub_date |-> IF IsSome(item.pub_date)
                   THEN IF IsSome(ParseRfc2822(Unwrap(item.pub_date)))
                        THEN ParseRfc2822(Unwrap(item.pub_date))
                        ELSE Some([ utc |-> 0, offset |-> 0 ])
                   ELSE None,
      enclosure_url |-> IF IsSome(item.enclosure)
                        THEN Some(Unwrap(item.enclosure).url) ELSE None ]
New(item, chan_title, conf) ==
    [ chan_title |-> chan_title, conf |-> conf,
      title |-> item.title, link |-> item.link,
      description |-> item.description, author |-> item.author,
      pub_date |-> IF IsSome(item.pub_date)
                   THEN ParseRfc2822(Unwrap(item.pub_date)) ELSE None,
      enclosure_url |-> IF IsSome(item.enclosure)
                        THEN Some(Unwrap(item.enclosure).url) ELSE None ]

\* Option<DateTime<FixedOffset>>::cmp: None is least, Some compares instants.
KeyLess(a, b) ==
    \/ IsNone(a) /\ IsSome(b)
    \/ IsSome(a) /\ IsSome(b) /\ Unwrap(a).utc < Unwrap(b).utc

KeyEq(a, b) == ~KeyLess(a, b) /\ ~KeyLess(b, a)

\* impl Ord for DisplayItem
Less(x, y) == KeyLess(x.pub_date, y.pub_date)

Le(x, y) == ~Less(y, x)
Ge(x, y) == ~Less(x, y)

(***************************************************************************)
(* collect::<BinaryHeap<DisplayItem>>(): the items are collected into a    *)
(* vector in feed order and the vector is heapified bottom-up (max-heap    *)
(* on Ord).  Positions are 0-based as in the library; data[p + 1] is the   *)
(* element at position p.                                                  *)
(***************************************************************************)
SatSub(a, b) == IF a >= b THEN a - b ELSE 0

\* sift_down_range(pos, end) with the hole at pos holding elt.
RECURSIVE SiftDownRange(_, _, _, _)
SiftDownRange(data, pos, elt, end) ==
    LET child == 2 * pos + 1 IN
    IF child <= SatSub(end, 2)
    THEN LET c == IF Le(data[child + 1], data[child + 2])
                  THEN child + 1 ELSE child
         IN  IF Ge(elt, data[c + 1])
             THEN [ data EXCEPT ![pos + 1] = elt ]
             ELSE SiftDownRange([ data EXCEPT ![pos + 1] = data[c + 1] ],
                                c, elt, end)
    ELSE IF child = end - 1 /\ Less(elt, data[child + 1])
         THEN [ data EXCEPT ![pos + 1] = data[child + 1], ![child + 1] = elt ]
         ELSE [ data EXCEPT ![pos + 1] = elt ]

\* rebuild(): n = len / 2; while n > 0 { n -= 1; sift_down(n) }
RECURSIVE Rebuild(_, _)
Rebuild(data, n) ==
    IF n = 0 THEN data
    ELSE Rebuild(SiftDownRange(data, n - 1, data[n], Len(data)), n - 1)

FeedOrderHeap(vec) == vec
HeapFrom(vec) == Rebuild(vec, Len(vec) \div 2)

\* BinaryHeap::drain(): the backing vector front to back.
Drain(heap) == heap

\* Iterator::take(n); max_items.unwrap_or(usize::MAX) keeps everything.
TakeOneMore(s, max_items) ==
    IF IsSome(max_items) /\ Unwrap(max_items) + 1 < Len(s)
    THEN SubSeq(s, 1, Unwrap(max_items) + 1) ELSE s
Take(s, max_items) ==
    IF IsSome(max_items) /\ Unwrap(max_items) < Len(s)
    THEN SubSeq(s, 1, Unwrap(max_items)) ELSE s

\* conf.item_config.unwrap_or_default()
ItemConfigOf(conf) ==
    IF IsSome(conf.item_config) THEN Unwrap(conf.item_config)
    ELSE ItemConfigDefault

\* chan.items.into_iter().map(DisplayItem::new).collect() (main.rs 175-185)
Normalized(conf, chan) ==
    [ k \in 1..Len(chan.items) |->
        New(chan.items[k], chan.title, ItemConfigOf(conf)) ]

(***************************************************************************)
(* items.sort_by_key(..): a stable sort on the key.                        *)
(***************************************************************************)
SortKeyAlwaysDate(order, i) == i.pub_date
SortKeyHiddenIsNone(order, i) ==
    IF order = "Date" /\ ~i.conf.hide_pub_date THEN i.pub_date ELSE None
SortKey(order, i) == IF order = "Date" THEN i.pub_date ELSE None

\* Insert x after every element whose key is not greater (stable).
\* (InsertUnstable puts it before its equals.)
RECURSIVE InsertUnstable(_, _, _)
InsertUnstable(order, sorted, x) ==
    IF Len(sorted) = 0 THEN << x >>
    ELSE IF KeyLess(SortKey(order, Head(sorted)), SortKey(order, x))
         THEN << Head(sorted) >> \o InsertUnstable(order, Tail(sorted), x)
         ELSE << x >> \o sorted
RECURSIVE Insert(_, _, _)
Insert(order, sorted, x) ==
    IF Len(sorted) = 0 THEN << x >>
    ELSE IF KeyLess(SortKey(order, x), SortKey(order, Head(sorted)))
         THEN << x >> \o sorted
         ELSE << Head(sorted) >> \o Insert(order, Tail(sorted), x)

RECURSIVE SortByKey(_, _)
SortByKey(order, s) ==
    IF Len(s) = 0 THEN << >>
    ELSE Insert(order, SortByKey(order, SubSeq(s, 1, Len(s) - 1)), s[Len(s)])

(***************************************************************************)
(* DisplayItem::format: the block as a sequence of lines.                  *)
(***************************************************************************)
Indent == "     "

\* textwrap::fill on a text that fits the width: one indented line.
Fill(text) == << << Indent, text >> >>

\* pub_date.naive_local(): the instant shifted by its own offset.
NaiveLocal(dt) == dt.utc + dt.offset

FormatIgnoresToggles(i) ==
    LET stamp == IF IsSome(i.pub_date)
                 THEN << "[", NaiveLocal(Unwrap(i.pub_date)), "] - " >> ELSE << >>
    IN  << stamp \o << i.chan_title >> >>
        \o (IF IsSome(i.title) THEN Fill(Unwrap(i.title)) ELSE << >>)
        \o (IF IsSome(i.author) THEN << << " - ", Unwrap(i.author) >> >> ELSE << >>)
        \o (IF IsSome(i.description) THEN Fill(Unwrap(i.description)) ELSE << >>)
        \o (IF IsSome(i.enclosure_url)
            THEN << << "[", Unwrap(i.enclosure_url), "]" >> >> ELSE << >>)
        \o (IF IsSome(i.link) THEN << << "[", Unwrap(i.link), "]" >> >> ELSE << >>)
FormatLinkFirst(i) ==
    LET stamp == IF IsSome(i.pub_date) /\ ~i.conf.hide_pub_date
                 THEN << "[", NaiveLocal(Unwrap(i.pub_date)), "] - " >> ELSE << >>
    IN  << stamp \o << i.chan_title >> >>
        \o (IF IsSome(i.title) /\ ~i.conf.hide_title
            THEN Fill(Unwrap(i.title)) ELSE << >>)
        \o (IF IsSome(i.author) /\ ~i.conf.hide_author
            THEN << << " - ", Unwrap(i.author) >> >> ELSE << >>)
        \o (IF IsSome(i.description) /\ ~i.conf.hide_description
            THEN Fill(Unwrap(i.description)) ELSE << >>)
        \o (IF IsSome(i.link) /\ ~i.conf.hide_link
            THEN << << "[", Unwrap(i.link), "]" >> >> ELSE << >>)
        \o (IF IsSome(i.enclosure_url) /\ i.conf.show_enclosure
            THEN << << "[", Unwrap(i.enclosure_url), "]" >> >> ELSE << >>)
Format(i) ==
    LET stamp == IF IsSome(i.pub_date) /\ ~i.conf.hide_pub_date
                 THEN << "[", NaiveLocal(Unwrap(i.pub_date)), "] - " >> ELSE << >>
    IN  << stamp \o << i.chan_title >> >>
        \o (IF IsSome(i.title) /\ ~i.conf.hide_title
            THEN Fill(Unwrap(i.title)) ELSE << >>)
        \o (IF IsSome(i.author) /\ ~i.conf.hide_author
            THEN << << " - ", Unwrap(i.author) >> >> ELSE << >>)
        \o (IF IsSome(i.description) /\ ~i.conf.hide_description
            THEN Fill(Unwrap(i.description)) ELSE << >>)
        \o (IF IsSome(i.enclosure_url) /\ i.conf.show_enclosure
            THEN << << "[", Unwrap(i.enclosure_url), "]" >> >> ELSE << >>)
        \o (IF IsSome(i.link) /\ ~i.conf.hide_link
            THEN << << "[", Unwrap(i.link), "]" >> >> ELSE << >>)

(***************************************************************************)
(* What the environment can answer.                                        *)
(***************************************************************************)
\* ureq::Error of http.get(url).call(), as displayed.
NetErrors(url) == { << url, ": Connection Failed" >>,
                    << url, ": status code 404" >> }

\* rss::Error of Channel::read_from, as displayed.
ParseErrors == { << "the input did not begin with an rss tag" >> }

Channels(url) == [ title : { ChanTitle(url) }, items : Feeds(url) ]

\* The error strings of main.rs 187 and 190.  src is the index of the source
\* the message came from; the program keeps only the text.
ParseMessage(i, err) ==
    [ src |-> i,
      text |-> << "Could not parse rss response from chan: [" >> \o err \o << "]" >> ]
ReachMessage(i, err) ==
    [ src |-> i, text |-> << "Could not reach rss: [" >> \o err \o << "]" >> ]

\* eprintln!("Could not format RSS Item: {}", err) for a std::fmt::Error (225)
FormatMessage ==
    << "Could not format RSS Item: ",
       "an error occurred when formatting an argument" >>

NoItemsMessage == << "No RSS items found." >>
ConfigMessage == << "Error: ", "\"No channels configured.\"" >>

Ok(v) == [ tag |-> "Ok", val |-> v ]
Err(e) == [ tag |-> "Err", val |-> e ]
Pending == [ tag |-> "Pending" ]

(***************************************************************************)
(* Loading the configuration (main.rs 126-148)                             *)
(***************************************************************************)
\* impl FromStr for Order
OrderFromStr(s) ==
    IF s = "date" THEN Ok("Date")
    ELSE IF s = "channel" THEN Ok("Channel")
    ELSE Err("Unrecognized Order. [date | channel]")

\* impl FromStr for ChanConfig: never fails.
ChanConfigFromStr(s) == ChanConfig(s, None, Some(ItemConfigDefault))

\* The command lines argh accepts: an optional --display-by and the urls.
CommandLines ==
    [ display_by : { None, Some("date"), Some("channel") },
      channels : { << >>, << UrlA >>, << UrlB, UrlA >> } ]

\* argh::from_env() on an accepted command line.
FromEnv(c) ==
    [ display_by |-> IF IsSome(c.display_by)
                     THEN OrderFromStr(Unwrap(c.display_by)).val ELSE "Date",
      channels |-> [ k \in 1..Len(c.channels) |->
                       ChanConfigFromStr(c.channels[k]) ] ]

\* Config::override_with
OverrideKeepsOwnOrder(self, other) ==
    [ channels |-> IF Len(other.channels) = 0
                   THEN self.channels ELSE other.channels,
      display_by |-> self.display_by ]
OverrideWith(self, other) ==
    [ channels |-> IF Len(other.channels) = 0
                   THEN self.channels ELSE other.channels,
      display_by |-> other.display_by ]

\* OpenOptions::open and serde_yaml::from_reader on the configuration file.
Files ==
    { [ tag |-> "NotFound" ], [ tag |-> "PermissionDenied" ], [ tag |-> "BadYaml" ] }
    \cup { [ tag |-> "Yaml", val |-> c ] :
             c \in [ display_by : Orders, channels : ChannelLists ] }

\* The error main returns when the file cannot be opened or parsed, as the
\* runtime prints it.
LoadMessage(f) ==
    << "Error: ",
       IF f.tag = "BadYaml" THEN "invalid config.yaml" ELSE "Permission denied" >>

(***************************************************************************)
(* State                                                                   *)
(***************************************************************************)
VARIABLES
    config,     \* the finalized Config: display_by, channels
    pc,         \* where main is
    result,     \* what main returned: "running", "Ok" or "Err"
    tpc,        \* per source: where its flat_map closure is
    gets,       \* per source: number of http.get(..).call() issued
    chan,       \* per source: the parsed Channel, if it parsed
    fetched,    \* per source: the closure's local `items` (Ok(heap) / Err(msg))
    batch,      \* per source: the vector the closure returned
    errors,     \* the shared Arc<RwLock<Vec<_>>>
    lock,       \* the writer holding the RwLock (0: nobody)
    merged,     \* the collected Vec<DisplayItem> as flat_map().collect() built it
    items,      \* `items`, sorted in place
    sorts,      \* number of sort_by_key calls made
    next,       \* position of the render loop in items
    stdout,     \* the blocks println! wrote
    stderr,     \* the lines eprintln! wrote
    fmtErr,     \* the positions of `items` at which format() returns Err
    cli,        \* the command line: the --display-by value and the urls
    file        \* what opening and parsing rssget/config.yaml gives

vars == << config, pc, result, tpc, gets, chan, fetched, batch, errors, lock,
           merged, items, sorts, next, stdout, stderr, fmtErr, cli, file >>

envVars == << fmtErr, cli, file >>

taskVars == << tpc, gets, chan, fetched, batch, errors, lock >>
mainVars == << pc, result, merged, items, sorts, next, stdout, stderr >>

Configs == [ display_by : Orders, channels : ChannelLists ]

N == Len(config.channels)

AllDone == \A i \in 1..N : tpc[i] = "done"

\* main before config.validate(): nothing fetched, nothing written.
Begin ==
    /\ pc = "validate"
    /\ result = "running"
    /\ tpc = [ i \in 1..N |-> "idle" ]
    /\ gets = [ i \in 1..N |-> 0 ]
    /\ chan = [ i \in 1..N |-> None ]
    /\ fetched = [ i \in 1..N |-> Pending ]
    /\ batch = [ i \in 1..N |-> << >> ]
    /\ errors = << >>
    /\ lock = 0
    /\ merged = << >>
    /\ items = << >>
    /\ sorts = 0
    /\ next = 0
    /\ stdout = << >>
    /\ stderr = << >>

\* The state after the configuration is loaded: the file holds the finalized
\* configuration and the command line names no url and the same order.
\* format() writes into a String, and that sink accepts every write.
Init ==
    /\ config \in Configs
    /\ fmtErr = { }
    /\ cli = [ display_by |-> IF config.display_by = "Date"
                              THEN None ELSE Some("channel"),
               channels |-> << >> ]
    /\ file = [ tag |-> "Yaml", val |-> config ]
    /\ Begin

\* The state after argh::from_env() (main.rs 127): any accepted command line,
\* any outcome of opening the file.  `config` holds args until the match of
\* 136-148 binds it, and no closure exists yet.
ConfigInit ==
    /\ cli \in CommandLines
    /\ file \in Files
    /\ config = FromEnv(cli)
    /\ fmtErr = { }
    /\ pc = "load"
    /\ result = "running"
    /\ tpc = << >>
    /\ gets = << >>
    /\ chan = << >>
    /\ fetched = << >>
    /\ batch = << >>
    /\ errors = << >>
    /\ lock = 0
    /\ merged = << >>
    /\ items = << >>
    /\ sorts = 0
    /\ next = 0
    /\ stdout = << >>
    /\ stderr = << >>

\* let config = match OpenOptions::new().read(true).open(config) {..}  (136-148)
LoadConfig ==
    /\ pc = "load"
    /\ IF file.tag \in { "Yaml", "NotFound" }
       THEN /\ config' = IF file.tag = "Yaml"
                         THEN OverrideWith(file.val, FromEnv(cli))
                         ELSE FromEnv(cli)
            /\ pc' = "validate"
            /\ tpc' = [ i \in 1..Len(config'.channels) |-> "idle" ]
            /\ gets' = [ i \in 1..Len(config'.channels) |-> 0 ]
            /\ chan' = [ i \in 1..Len(config'.channels) |-> None ]
            /\ fetched' = [ i \in 1..Len(config'.channels) |-> Pending ]
            /\ batch' = [ i \in 1..Len(config'.channels) |-> << >> ]
            /\ UNCHANGED << result, stderr >>
       ELSE /\ pc' = "done"
            /\ result' = "Err"
            /\ stderr' = Append(stderr, LoadMessage(file))
            /\ UNCHANGED << config, tpc, gets, chan, fetched, batch >>
    /\ UNCHANGED << envVars, errors, lock, merged, items, sorts, next, stdout >>

(***************************************************************************)
(* main                                                                    *)
(***************************************************************************)
\* config.validate()?  (main.rs 150); on Ok the parallel iterator starts.
ValidateStep ==
    /\ pc = "validate"
    /\ IF Validate(config.channels) = "Err"
       THEN /\ pc' = "done"
            /\ result' = "Err"
            /\ stderr' = Append(stderr, ConfigMessage)
            /\ UNCHANGED tpc
       ELSE /\ pc' = "fetch"
            /\ tpc' = [ i \in 1..N |-> "get" ]
            /\ UNCHANGED << result, stderr >>
    /\ UNCHANGED << config, envVars, gets, chan, fetched, batch, errors, lock,
                    merged, items, sorts, next, stdout >>

CollectAbortsOnError ==
    /\ pc = "fetch"
    /\ AllDone
    /\ merged' = IF Len(errors) > 0 THEN << >> ELSE Flatten(batch)
    /\ items' = merged'
    /\ pc' = "report"
    /\ UNCHANGED << config, envVars, result, taskVars, sorts, next, stdout, stderr >>

CollectLosesItem ==
    /\ pc = "fetch"
    /\ AllDone
    /\ merged' = SubSeq(Flatten(batch), 1, Len(Flatten(batch)) - 1)
    /\ items' = merged'
    /\ pc' = "report"
    /\ UNCHANGED << config, envVars, result, taskVars, sorts, next, stdout, stderr >>

CollectEarly ==
    /\ pc = "fetch"
    /\ merged' = Flatten(batch)
    /\ items' = Flatten(batch)
    /\ pc' = "report"
    /\ UNCHANGED << config, envVars, result, taskVars, sorts, next, stdout, stderr >>

CollectReversed ==
    /\ pc = "fetch"
    /\ AllDone
    /\ merged' = Flatten([ i \in 1..N |-> batch[N + 1 - i] ])
    /\ items' = merged'
    /\ pc' = "report"
    /\ UNCHANGED << config, envVars, result, taskVars, sorts, next, stdout, stderr >>

\* .collect::<Vec<DisplayItem>>() returns once every closure has returned; the
\* batches are concatenated in the order of config.channels (main.rs 164-205).
Collect ==
    /\ pc = "fetch"
    /\ AllDone
    /\ merged' = Flatten(batch)
    /\ items' = Flatten(batch)
    /\ pc' = "report"
    /\ UNCHANGED << config, envVars, result, taskVars, sorts, next, stdout, stderr >>

ReportToStdout ==
    /\ pc = "report"
    /\ lock = 0
    /\ stdout' = stdout \o [ k \in 1..Len(errors) |-> << errors[k].text >> ]
    /\ pc' = "check"
    /\ UNCHANGED << config, envVars, result, taskVars, merged, items, sorts, next, stderr >>

\* errors.read().unwrap().iter().for_each(|e| eprintln!("{}", e))  (207-211)
Report ==
    /\ pc = "report"
    /\ lock = 0
    /\ stderr' = stderr \o [ k \in 1..Len(errors) |-> errors[k].text ]
    /\ pc' = "check"
    /\ UNCHANGED << config, envVars, result, taskVars, merged, items, sorts, next, stdout >>

CheckEmptyFails ==
    /\ pc = "check"
    /\ IF Len(items) = 0
       THEN /\ stderr' = Append(stderr, NoItemsMessage)
            /\ result' = "Err"
            /\ pc' = "done"
       ELSE /\ pc' = "sort"
            /\ UNCHANGED << stderr, result >>
    /\ UNCHANGED << config, envVars, taskVars, merged, items, sorts, next, stdout >>

\* if items.is_empty() { eprintln!(..); return Ok(()) }  (213-216)
CheckEmpty ==
    /\ pc = "check"
    /\ IF Len(items) = 0
       THEN /\ stderr' = Append(stderr, NoItemsMessage)
            /\ result' = "Ok"
            /\ pc' = "done"
       ELSE /\ pc' = "sort"
            /\ UNCHANGED << stderr, result >>
    /\ UNCHANGED << config, envVars, taskVars, merged, items, sorts, next, stdout >>

\* items.sort_by_key(..)  (218-221)
Sort ==
    /\ pc = "sort"
    /\ items' = SortByKey(config.display_by, items)
    /\ sorts' = sorts + 1
    /\ next' = 1
    /\ pc' = "render"
    /\ UNCHANGED << config, envVars, result, taskVars, merged, stdout, stderr >>

RenderStopsOnErr ==
    /\ pc = "render"
    /\ next <= Len(items)
    /\ IF next \in fmtErr
       THEN /\ stderr' = Append(stderr, FormatMessage)
            /\ next' = Len(items) + 1
            /\ UNCHANGED stdout
       ELSE /\ stdout' = Append(stdout, Format(items[next]))
            /\ next' = next + 1
            /\ UNCHANGED stderr
    /\ UNCHANGED << config, envVars, pc, result, taskVars, merged, items, sorts >>

\* One turn of items.iter().for_each(|i| match i.format() {..})  (223-226):
\* Ok(output) => println!, Err(err) => eprintln!, and on to the next item.
Render ==
    /\ pc = "render"
    /\ next <= Len(items)
    /\ IF next \in fmtErr
       THEN /\ stderr' = Append(stderr, FormatMessage)
            /\ UNCHANGED stdout
       ELSE /\ stdout' = Append(stdout, Format(items[next]))
            /\ UNCHANGED stderr
    /\ next' = next + 1
    /\ UNCHANGED << config, envVars, pc, result, taskVars, merged, items, sorts >>

\* Ok(())  (228)
Return ==
    /\ pc = "render"
    /\ next > Len(items)
    /\ result' = "Ok"
    /\ pc' = "done"
    /\ UNCHANGED << config, envVars, taskVars, merged, items, sorts, next, stdout, stderr >>

(***************************************************************************)
(* The closure of flat_map, run once per source by the thread pool.        *)
(***************************************************************************)
GetRetriesOnce(i) ==
    /\ tpc[i] = "get"
    /\ gets' = [ gets EXCEPT ![i] = @ + 1 ]
    /\ \/ /\ tpc' = [ tpc EXCEPT ![i] = "read" ]
          /\ UNCHANGED fetched
       \/ \E err \in NetErrors(config.channels[i].url) :
            IF gets[i] = 0
            THEN UNCHANGED << tpc, fetched >>
            ELSE /\ fetched' = [ fetched EXCEPT ![i] = Err(ReachMessage(i, err)) ]
                 /\ tpc' = [ tpc EXCEPT ![i] = "match" ]
    /\ UNCHANGED << config, envVars, mainVars, chan, batch, errors, lock >>

\* http.get(&conf.url).call()  (173, 190)
Get(i) ==
    /\ tpc[i] = "get"
    /\ gets' = [ gets EXCEPT ![i] = @ + 1 ]
    /\ \/ /\ tpc' = [ tpc EXCEPT ![i] = "read" ]
          /\ UNCHANGED fetched
       \/ \E err \in NetErrors(config.channels[i].url) :
            /\ fetched' = [ fetched EXCEPT ![i] = Err(ReachMessage(i, err)) ]
            /\ tpc' = [ tpc EXCEPT ![i] = "match" ]
    /\ UNCHANGED << config, envVars, mainVars, chan, batch, errors, lock >>

\* Channel::read_from(..) and the map/collect into the heap  (174-189)
Read(i) ==
    /\ tpc[i] = "read"
    /\ \/ \E c \in Channels(config.channels[i].url) :
            /\ chan' = [ chan EXCEPT ![i] = Some(c) ]
            /\ fetched' = [ fetched EXCEPT
                 ![i] = Ok(HeapFrom(Normalized(config.channels[i], c))) ]
       \/ \E err \in ParseErrors :
            /\ fetched' = [ fetched EXCEPT ![i] = Err(ParseMessage(i, err)) ]
            /\ UNCHANGED chan
    /\ tpc' = [ tpc EXCEPT ![i] = "match" ]
    /\ UNCHANGED << config, envVars, mainVars, gets, batch, errors, lock >>

\* Ok(mut items) => items.drain().take(..).collect()  (195-198)
Keep(i) ==
    /\ tpc[i] = "match"
    /\ fetched[i].tag = "Ok"
    /\ batch' = [ batch EXCEPT
         ![i] = Take(Drain(fetched[i].val), config.channels[i].max_items) ]
    /\ tpc' = [ tpc EXCEPT ![i] = "done" ]
    /\ UNCHANGED << config, envVars, mainVars, gets, chan, fetched, errors, lock >>

LockUnguarded(i) ==
    /\ tpc[i] = "match"
    /\ fetched[i].tag = "Err"
    /\ lock' = i
    /\ tpc' = [ tpc EXCEPT ![i] = "push" ]
    /\ UNCHANGED << config, envVars, mainVars, gets, chan, fetched, batch, errors >>

\* Err(e) => errors.write().unwrap() ...: the write lock is taken  (200)
Lock(i) ==
    /\ tpc[i] = "match"
    /\ fetched[i].tag = "Err"
    /\ lock = 0
    /\ lock' = i
    /\ tpc' = [ tpc EXCEPT ![i] = "push" ]
    /\ UNCHANGED << config, envVars, mainVars, gets, chan, fetched, batch, errors >>

PushDropsError(i) ==
    /\ tpc[i] = "push"
    /\ lock' = 0
    /\ batch' = [ batch EXCEPT ![i] = << >> ]
    /\ tpc' = [ tpc EXCEPT ![i] = "done" ]
    /\ UNCHANGED << config, envVars, mainVars, gets, chan, fetched, errors >>

\* ... .push(e); the guard is dropped; vec![]  (200-201)
Push(i) ==
    /\ tpc[i] = "push"
    /\ errors' = Append(errors, fetched[i].val)
    /\ lock' = 0
    /\ batch' = [ batch EXCEPT ![i] = << >> ]
    /\ tpc' = [ tpc EXCEPT ![i] = "done" ]
    /\ UNCHANGED << config, envVars, mainVars, gets, chan, fetched >>

Task(i) == i \in 1..N /\ (Get(i) \/ Read(i) \/ Keep(i) \/ Lock(i) \/ Push(i))

Main == ValidateStep \/ Collect \/ Report \/ CheckEmpty \/ Sort \/ Render \/ Return

Next ==
    \/ ValidateStep
    \/ Collect
    \/ Report
    \/ CheckEmpty
    \/ Sort
    \/ Render
    \/ Return
    \/ \E i \in 1..N : Get(i)
    \/ \E i \in 1..N : Read(i)
    \/ \E i \in 1..N : Keep(i)
    \/ \E i \in 1..N : Lock(i)
    \/ \E i \in 1..N : Push(i)

Spec == Init /\ [][Next]_vars

\* The same program over a sink that refuses the writes of some items: what
\* the Err arm of the render loop does.  One source is enough to fill `items`.
SinkInit ==
    /\ config \in Configs
    /\ N = 1
    /\ fmtErr \in SUBSET (1..MaxFeedLen)
    /\ cli = [ display_by |-> IF config.display_by = "Date"
                              THEN None ELSE Some("channel"),
               channels |-> << >> ]
    /\ file = [ tag |-> "Yaml", val |-> config ]
    /\ Begin

SinkSpec == SinkInit /\ [][Next]_vars

\* main from the command line to the validated configuration.
ConfigNext ==
    \/ LoadConfig
    \/ ValidateStep

ConfigSpec == ConfigInit /\ [][ConfigNext]_vars

\* The thread pool runs every closure to its end and main is never suspended
\* for good: every enabled step of main and of each closure is eventually taken.
\* Behaviours are followed to their end from every configuration of at most one
\* source and from the date-ordered two-source configuration whose first source
\* is capped.
FairInit ==
    /\ Init
    /\ N = 2 => /\ config.display_by = "Date"
                /\ config.channels[1].max_items = Some(1)

FairSpec ==
    /\ FairInit
    /\ [][Next]_vars
    /\ WF_vars(Main)
    /\ \A i \in Sources : WF_vars(Task(i))

(***************************************************************************)
(* Vocabulary of the properties                                            *)
(***************************************************************************)
Min(a, b) == IF a <= b THEN a ELSE b

\* The fetch and the parse of source i both succeeded.
Succeeded(i) == IsSome(chan[i])

\* Source i has finished without a parsed channel.
Failed(i) == tpc[i] = "done" /\ IsNone(chan[i])

\* Number of entries of the shared error list that came from source i.
ErrCount(i) == Cardinality({ k \in 1..Len(errors) : errors[k].src = i })

\* The items of s that carry the channel title of source i.
FromSource(s, i) ==
    SelectSeq(s, LAMBDA d : d.chan_title = ChanTitle(config.channels[i].url))

\* min(n, max_items), or n when max_items is unset, for the feed of source i.
Expected(i) ==
    LET n == Len(Unwrap(chan[i]).items)
        m == config.channels[i].max_items
    IN  IF IsSome(m) THEN Min(n, Unwrap(m)) ELSE n

Collected == pc \in { "report", "check", "sort", "render" }
             \/ (pc = "done" /\ N > 0)

(***************************************************************************)
(* C1: once all fetch tasks have finished, the number of error messages in *)
(* the shared list plus the number of sources whose fetch and parse both   *)
(* succeeded equals the number of configured sources, and every source has *)
(* exactly one outcome: one error message, or an item batch, never both    *)
(* and never neither.                                                      *)
(***************************************************************************)
OneOutcomePerSource ==
    (pc # "validate" /\ AllDone) =>
        /\ Len(errors) + Cardinality({ i \in 1..N : Succeeded(i) }) = N
        /\ \A i \in 1..N :
             /\ Succeeded(i) => ErrCount(i) = 0 /\ fetched[i].tag = "Ok"
             /\ ~Succeeded(i) => ErrCount(i) = 1 /\ batch[i] = << >>

OneOutcomeWitness ==
    /\ N = 2 /\ AllDone /\ pc = "fetch"
    /\ Len(errors) = 1
    /\ \E i \in 1..N : Succeeded(i) /\ Len(batch[i]) > 0

(***************************************************************************)
(* C2: a source whose fetch and parse succeed on a feed of n items         *)
(* contributes min(n, max_items) items to the merged collection when       *)
(* max_items is set and n when it is unset, never more than max_items.     *)
(***************************************************************************)
CapRespected ==
    /\ \A i \in 1..N :
         (tpc[i] = "done" /\ Succeeded(i)) =>
            /\ Len(batch[i]) = Expected(i)
            /\ IsSome(config.channels[i].max_items) =>
                 Len(batch[i]) <= Unwrap(config.channels[i].max_items)
    /\ Collected =>
         \A i \in 1..N :
            Succeeded(i) => Len(FromSource(merged, i)) = Expected(i)

CapWitness ==
    /\ Collected
    /\ \E i \in 1..N :
         /\ Succeeded(i)
         /\ config.channels[i].max_items = Some(1)
         /\ Len(Unwrap(chan[i]).items) = 2
         /\ Len(FromSource(merged, i)) = 1
    /\ \E i \in 1..N :
         /\ Succeeded(i)
         /\ IsNone(config.channels[i].max_items)
         /\ Len(FromSource(merged, i)) = 2

(***************************************************************************)
(* C3: failure isolation.  A source whose fetch fails (network or parse)   *)
(* yields exactly one error message and zero items; every other source's   *)
(* task still runs to its own outcome (it can always step, or is waiting   *)
(* for the error list's lock that a running task holds) and, if it         *)
(* succeeds, its items are in the result; the run is not aborted.          *)
(***************************************************************************)
FailureIsolated ==
    /\ \A i \in 1..N :
         Failed(i) => ErrCount(i) = 1 /\ batch[i] = << >>
    /\ (\E i \in 1..N : fetched[i].tag = "Err") =>
         /\ result # "Err"
         /\ \A j \in 1..N :
              tpc[j] \in { "get", "read", "match", "push" } =>
                 (ENABLED Task(j)) \/ (lock # 0 /\ tpc[lock] = "push")
    /\ Collected =>
         \A i \in 1..N :
            /\ Failed(i) => FromSource(merged, i) = << >>
            /\ Succeeded(i) =>
                 /\ FromSource(merged, i) = batch[i]
                 /\ Len(batch[i]) = Expected(i)

FailureIsolatedWitness ==
    /\ pc = "done" /\ result = "Ok" /\ N = 2
    /\ Failed(2) /\ Succeeded(1)
    /\ config.display_by = "Date"
    /\ Range(Unwrap(chan[1]).items) = { NewYear, March }
    /\ Len(merged) = 2 /\ Len(stdout) = 2
    /\ Unwrap(items[1].pub_date).utc < Unwrap(items[2].pub_date).utc
    /\ Len(errors) = 1 /\ errors[1].src = 2
    /\ errors[1].text[2] = UrlB

(***************************************************************************)
(* C4: when the merged collection is empty after all fetches, the run      *)
(* reports "no items found" on the error channel, sorts nothing, renders   *)
(* nothing and ends with a successful outcome.                             *)
(***************************************************************************)
EmptyResultIsOk ==
    /\ pc \in { "sort", "render" } => Len(merged) > 0
    /\ (pc = "done" /\ N > 0 /\ Len(merged) = 0) =>
         /\ result = "Ok"
         /\ Len(stderr) = Len(errors) + 1
         /\ stderr[Len(stderr)] = NoItemsMessage
         /\ sorts = 0
         /\ stdout = << >>

EmptyResultWitness ==
    /\ pc = "done" /\ N = 2 /\ Len(merged) = 0
    /\ \E i \in 1..N : Failed(i)
    /\ \E i \in 1..N : Succeeded(i)

\* The items of s whose timestamp key equals that of d, in their order in s.
SameKey(s, d) == SelectSeq(s, LAMBDA e : KeyEq(e.pub_date, d.pub_date))

(***************************************************************************)
(* C5: under Order::Date the rendered sequence is a permutation of the     *)
(* merged sequence in which every item without a timestamp precedes every  *)
(* item with one, timestamps are non-decreasing, and items with equal sort *)
(* key keep the relative order they had in the merged sequence.            *)
(***************************************************************************)
DateOrderStable ==
    (sorts = 1 /\ config.display_by = "Date") =>
        /\ Len(items) = Len(merged)
        /\ \A d \in Range(merged) : Count(items, d) = Count(merged, d)
        /\ \A a, b \in 1..Len(items) :
             a < b =>
                /\ IsNone(items[b].pub_date) => IsNone(items[a].pub_date)
                /\ (IsSome(items[a].pub_date) /\ IsSome(items[b].pub_date)) =>
                     Unwrap(items[a].pub_date).utc <= Unwrap(items[b].pub_date).utc
        /\ \A d \in Range(merged) : SameKey(items, d) = SameKey(merged, d)

DateOrderWitness ==
    /\ sorts = 1 /\ config.display_by = "Date"
    /\ items # merged
    /\ \E a, b \in 1..Len(merged) :
         /\ a < b
         /\ IsSome(merged[a].pub_date) /\ IsNone(merged[b].pub_date)
    /\ \E a, b \in 1..Len(merged) :
         /\ a < b
         /\ merged[a] # merged[b]
         /\ IsSome(merged[a].pub_date)
         /\ KeyEq(merged[a].pub_date, merged[b].pub_date)

(***************************************************************************)
(* C6: with zero sources validation fails and the run ends with an error   *)
(* outcome before any fetch task is started: main never enters the fetch,  *)
(* report or render phases, the error list stays empty, nothing is merged  *)
(* or rendered, and only the configuration error is reported.              *)
(***************************************************************************)
NoSourcesIsFatal ==
    N = 0 =>
        /\ pc \in { "validate", "done" }
        /\ pc = "done" => result = "Err" /\ stderr = << ConfigMessage >>
        /\ pc = "validate" => result = "running" /\ stderr = << >>
        /\ errors = << >> /\ merged = << >> /\ stdout = << >> /\ sorts = 0
        /\ DOMAIN tpc = { } /\ DOMAIN gets = { }

NoSourcesWitness == N = 0 /\ pc = "done" /\ result = "Err"

Carries(d, raw) ==
    /\ d.title = raw.title /\ d.link = raw.link
    /\ d.description = raw.description /\ d.author = raw.author

DateNormalized(d, raw) ==
    /\ LET parsed == IF IsSome(raw.pub_date)
                     THEN ParseRfc2822(Unwrap(raw.pub_date)) ELSE None
       IN  IF IsNone(raw.pub_date) \/ IsNone(parsed)
           THEN d.pub_date = None
           ELSE d.pub_date = parsed
    /\ raw \in { Undated, BadDate } => d.pub_date = None
    /\ raw = NewYear => d.pub_date = Some([ utc |-> 1704067200, offset |-> 0 ])
    /\ raw = March => d.pub_date = Some([ utc |-> 1709251200, offset |-> 7200 ])

(***************************************************************************)
(* C8: normalization yields one display item per raw item; its timestamp   *)
(* is absent whenever the raw publish-date string is absent or does not    *)
(* parse as RFC 2822, and is the parsed instant when it parses; an absent  *)
(* or unparsable date never becomes the epoch or another default.          *)
(***************************************************************************)
AbsentDateStaysAbsent ==
    \A i \in 1..N :
       fetched[i].tag = "Ok" =>
          /\ Len(fetched[i].val) = Len(Unwrap(chan[i]).items)
          /\ \A raw \in Range(Unwrap(chan[i]).items) :
                \E d \in Range(fetched[i].val) : Carries(d, raw)
          /\ \A d \in Range(fetched[i].val) :
                \E raw \in Range(Unwrap(chan[i]).items) :
                   Carries(d, raw) /\ DateNormalized(d, raw)

AbsentDateWitness ==
    \E i \in 1..N :
       /\ fetched[i].tag = "Ok"
       /\ Range(Unwrap(chan[i]).items) = { BadDate, NewYear }
       /\ \E d \in Range(fetched[i].val) : IsNone(d.pub_date)
       /\ \E d \in Range(fetched[i].val) : IsSome(d.pub_date)

AllHidden(c) ==
    /\ c.hide_title /\ c.hide_link /\ c.hide_description
    /\ c.hide_author /\ c.hide_pub_date /\ ~c.show_enclosure

NothingBeforeAllDone ==
    (stderr # << >> \/ sorts > 0 \/ stdout # << >> \/ merged # << >>) => AllDone

(***************************************************************************)
(* C10: the run waits for every source.  Nothing is printed on the error   *)
(* channel, nothing is sorted and nothing is rendered before every         *)
(* source's task has reached its outcome; and, every fetch returning, the  *)
(* run reaches its end with every task finished.                           *)
(***************************************************************************)
RunWaitsForEverySource ==
    /\ NothingBeforeAllDone
    /\ [][NothingBeforeAllDone']_vars
    /\ <> (pc = "done" /\ AllDone /\ result # "running")

RunWaitsWitness ==
    /\ pc = "done" /\ N = 2 /\ result = "Ok"
    /\ Len(stderr) = 1 /\ Len(stdout) > 0 /\ sorts = 1

\* The texts of the shared error list, in list order.
ErrTexts == [ k \in 1..Len(errors) |-> errors[k].text ]

Reported == pc \in { "check", "sort", "render" } \/ (pc = "done" /\ N > 0)

(***************************************************************************)
(* C11: fetch errors are never interleaved with item output.  Every fetch  *)
(* or parse error message goes to the error channel and never to the item  *)
(* channel, all of them before the first item block is rendered; the item  *)
(* channel carries only rendered item blocks, in the final item order.     *)
(***************************************************************************)
ErrorsBeforeItems ==
    /\ Reported => /\ Len(stderr) >= Len(errors)
                   /\ SubSeq(stderr, 1, Len(errors)) = ErrTexts
    /\ stdout # << >> => pc \in { "render", "done" } /\ stderr = ErrTexts
    /\ Len(stdout) <= Len(items)
    /\ \A k \in 1..Len(stdout) : stdout[k] = Format(items[k])

ErrorsBeforeItemsWitness ==
    /\ pc = "done" /\ N = 2
    /\ Len(errors) = 1 /\ stderr = ErrTexts
    /\ Len(stdout) = 2 /\ items # merged

\* Sum of f[1..n].
RECURSIVE SumTo(_, _)
SumTo(f, n) == IF n = 0 THEN 0 ELSE f[n] + SumTo(f, n - 1)

\* The normalized items of the feed source i parsed.
FeedItems(i) == Normalized(config.channels[i], Unwrap(chan[i]))

\* Source i keeps its whole feed: no cap, or a cap the feed does not exceed.
Uncut(i) ==
    \/ IsNone(config.channels[i].max_items)
    \/ Len(Unwrap(chan[i]).items) <= Unwrap(config.channels[i].max_items)

(***************************************************************************)
(* C12: item conservation under concurrency.  After all fetch tasks have   *)
(* finished the merged collection is, as a multiset, the union of the      *)
(* capped batches of the successful sources: no item within a source's cap *)
(* is lost or duplicated by the parallel merge, no item of a failed source *)
(* appears, and no source is included in part because of a failure.        *)
(***************************************************************************)
ItemsConserved ==
    Collected =>
        /\ Len(merged) =
             SumTo([ i \in 1..N |-> IF Succeeded(i) THEN Expected(i) ELSE 0 ], N)
        /\ \A d \in Range(merged) \cup UNION { Range(batch[i]) : i \in 1..N } :
             Count(merged, d) = SumTo([ i \in 1..N |-> Count(batch[i], d) ], N)
        /\ \A k \in 1..Len(merged) :
             \E i \in 1..N :
                Succeeded(i) /\ merged[k].chan_title = Unwrap(chan[i]).title
        /\ \A i \in 1..N :
             LET from == FromSource(merged, i)
             IN  /\ ~Succeeded(i) => from = << >>
                 /\ Succeeded(i) =>
                      LET feed == FeedItems(i)
                      IN  /\ \A d \in Range(from) : d \in Range(feed)
                          /\ \A d \in Range(feed) :
                               /\ Count(from, d) <= Count(feed, d)
                               /\ Uncut(i) => Count(from, d) = Count(feed, d)

ItemsConservedWitness ==
    /\ Collected /\ N = 2
    /\ Succeeded(1) /\ Succeeded(2)
    /\ ~Uncut(1) /\ Uncut(2)
    /\ Len(FromSource(merged, 1)) = 1 /\ Len(FromSource(merged, 2)) = 2
    /\ \E d \in Range(FeedItems(2)) : Count(FeedItems(2), d) = 2

(***************************************************************************)
(* C13: under Order::Channel the sort is a no-op.  Every item gets the     *)
(* same constant key, so the rendered sequence is, element by element, the *)
(* merged sequence as collected: items are reordered neither by channel    *)
(* title nor by timestamp.                                                 *)
(***************************************************************************)
ChannelOrderIsNoOp ==
    (sorts = 1 /\ config.display_by = "Channel") =>
        /\ items = merged
        /\ \A k \in 1..Len(stdout) : stdout[k] = Format(merged[k])

ChannelOrderWitness ==
    /\ pc = "done" /\ sorts = 1 /\ config.display_by = "Channel"
    /\ Len(stdout) = Len(merged)
    /\ \E a, b \in 1..Len(merged) :
         a < b /\ KeyLess(merged[b].pub_date, merged[a].pub_date)
    /\ \E a, b \in 1..Len(merged) : merged[a].chan_title # merged[b].chan_title

(***************************************************************************)
(* C14: every configured source is requested exactly once.  One HTTP GET   *)
(* is issued per source, a source whose request or parse failed is never   *)
(* retried within the run, and the total number of network calls equals    *)
(* the number of configured sources.                                       *)
(***************************************************************************)
OneRequestPerSource ==
    /\ \A i \in 1..N :
         /\ tpc[i] \in { "idle", "get" } => gets[i] = 0
         /\ tpc[i] \in { "read", "match", "push", "done" } => gets[i] = 1
    /\ (pc # "validate" /\ AllDone) => SumTo(gets, N) = N

OneRequestWitness ==
    /\ pc = "done" /\ N = 2 /\ Len(errors) = 2
    /\ \E k \in 1..2 : errors[k].text[1] = "Could not reach rss: ["
    /\ \E k \in 1..2 : errors[k].text[1] = "Could not parse rss response from chan: ["
    /\ gets[1] = 1 /\ gets[2] = 1

\* The optional parts of a block below its head line, in display order, each
\* with the field it shows and whether the item's toggles allow it.
Parts(i) ==
    << [ field |-> i.title,         allowed |-> ~i.conf.hide_title,
         open |-> Indent, close |-> << >> ],
       [ field |-> i.author,        allowed |-> ~i.conf.hide_author,
         open |-> " - ",  close |-> << >> ],
       [ field |-> i.description,   allowed |-> ~i.conf.hide_description,
         open |-> Indent, close |-> << >> ],
       [ field |-> i.enclosure_url, allowed |-> i.conf.show_enclosure,
         open |-> "[",    close |-> << "]" >> ],
       [ field |-> i.link,          allowed |-> ~i.conf.hide_link,
         open |-> "[",    close |-> << "]" >> ] >>

Shown(part) == IsSome(part.field) /\ part.allowed
PartLine(part) == << part.open, Unwrap(part.field) >> \o part.close

\* block's lines below the head are exactly the lines of the shown parts, in
\* order: a strictly increasing map from the shown parts onto the lines.
BodyShowsExactly(block, i) ==
    LET shown == { p \in 1..Len(Parts(i)) : Shown(Parts(i)[p]) }
        body  == Tail(block)
    IN  /\ Len(body) = Cardinality(shown)
        /\ \A p \in shown :
             LET at == Cardinality({ q \in shown : q <= p })
             IN  body[at] = PartLine(Parts(i)[p])

HeadShows(block, i) ==
    LET head == block[1]
    IN  /\ head[Len(head)] = i.chan_title
        /\ IF IsSome(i.pub_date) /\ ~i.conf.hide_pub_date
           THEN head = << "[", NaiveLocal(Unwrap(i.pub_date)), "] - ", i.chan_title >>
           ELSE head = << i.chan_title >>

(***************************************************************************)
(* C15: a rendered block always contains the channel title and contains    *)
(* each optional part if and only if the field is present and its toggle   *)
(* allows it (timestamp, title, author, description, link unless hidden;   *)
(* enclosure URL only when show_enclosure); an absent field is never       *)
(* rendered, and the parts appear in the order timestamp, channel title,   *)
(* title, author, description, enclosure, link.                            *)
(***************************************************************************)
BlockShowsAllowedParts ==
    \A k \in 1..Len(stdout) :
        /\ Len(stdout[k]) >= 1
        /\ HeadShows(stdout[k], items[k])
        /\ BodyShowsExactly(stdout[k], items[k])

BlockShowsWitness ==
    /\ pc = "done"
    /\ \E k \in 1..Len(stdout) :
         /\ items[k].conf = ShowEnclosure
         /\ IsSome(items[k].pub_date)
         /\ Len(stdout[k]) = 6 /\ Len(stdout[k][1]) = 1
    /\ \E k \in 1..Len(stdout) :
         /\ items[k].conf = ItemConfigDefault
         /\ IsSome(items[k].enclosure_url) /\ IsNone(items[k].description) = FALSE
         /\ Len(stdout[k]) = 5 /\ Len(stdout[k][1]) = 4
    /\ \E k \in 1..Len(stdout) :
         /\ IsNone(items[k].link) /\ IsNone(items[k].pub_date)
         /\ Len(stdout[k]) = 2

Writers == { i \in 1..N : tpc[i] = "push" }

\* At most one task is inside errors.write(), and it is the lock's holder; a
\* task that is requesting or parsing does not hold the lock.
OneWriter ==
    /\ Cardinality(Writers) <= 1
    /\ \A i \in 1..N : tpc[i] = "push" <=> lock = i
    /\ lock # 0 => fetched[lock].tag = "Err"

\* A step changes the list only by the lock holder appending its own message
\* and releasing the lock with it, and the list is read (its messages reach
\* stderr) only when every task has finished and nobody holds the lock.
AppendOnlyStep ==
    /\ Len(errors') >= Len(errors)
    /\ SubSeq(errors', 1, Len(errors)) = errors
    /\ errors' # errors =>
         /\ lock # 0 /\ lock' = 0
         /\ tpc'[lock] = "done"
         /\ errors' = Append(errors, fetched[lock].val)
    /\ (lock # 0 /\ lock' = 0) => Len(errors') = Len(errors) + 1
    /\ (pc = "report" /\ pc' # "report") => AllDone /\ lock = 0 /\ errors' = errors
    /\ (stderr' # stderr /\ pc # "validate" /\ pc # "check") => pc = "report" /\ AllDone

(***************************************************************************)
(* C17: access to the shared error list is synchronized and the list is    *)
(* append-only.  Two fetch tasks never hold write access at the same time, *)
(* the write lock is held only for the single push (never across the       *)
(* network call or the parse), an appended entry is never removed or       *)
(* changed, and the list is read only after all fetch tasks have finished. *)
(***************************************************************************)
ErrorListSynchronized == OneWriter /\ [][OneWriter' /\ AppendOnlyStep]_vars

ErrorListWitness ==
    /\ N = 2 /\ lock = 1 /\ tpc[1] = "push"
    /\ tpc[2] = "match" /\ fetched[2].tag = "Err"
    /\ errors = << >>

\* The configured source an item came from (sources have distinct titles).
SourceOf(d) ==
    CHOOSE i \in 1..N : d.chan_title = ChanTitle(config.channels[i].url)

\* merged is its sources' batches, each in one piece, in configured order.
BatchesInSourceOrder ==
    Collected =>
        /\ \A a, b \in 1..Len(merged) :
             a < b => SourceOf(merged[a]) <= SourceOf(merged[b])
        /\ \A i \in 1..N : FromSource(merged, i) = batch[i]

\* A task that finishes with an error puts its message last in the list at
\* the moment it finishes: the list is in order of completion.
ErrorsInCompletionOrder ==
    \A i \in 1..N :
        (tpc[i] # "done" /\ tpc'[i] = "done" /\ fetched[i].tag = "Err") =>
            /\ Len(errors') = Len(errors) + 1
            /\ errors'[Len(errors')].src = i
            /\ SubSeq(errors', 1, Len(errors)) = errors

(***************************************************************************)
(* C18: in the merged collection the items of one source are contiguous    *)
(* and the batches appear in configured source order, whatever order the   *)
(* fetch tasks complete in; items of two sources are never interleaved by  *)
(* the parallel merge.  The entries of the error list follow the order in  *)
(* which the tasks complete.                                               *)
(***************************************************************************)
MergeKeepsSourceOrder ==
    /\ BatchesInSourceOrder
    /\ [][BatchesInSourceOrder' /\ ErrorsInCompletionOrder]_vars

MergeKeepsSourceOrderWitness ==
    /\ Collected /\ N = 2
    /\ Len(batch[1]) = 2 /\ Len(batch[2]) = 2
    /\ [ k \in 1..Len(merged) |-> SourceOf(merged[k]) ] = << 1, 1, 2, 2 >>
    /\ items # merged

\* The display configurations a second run may give the same items.
AltConfs == { ItemConfigDefault, HideAll, ShowEnclosure }

\* s with every item's display configuration replaced by c.
WithConf(s, c) == [ k \in 1..Len(s) |-> [ s[k] EXCEPT !.conf = c ] ]

\* s with the publication-date toggle of every item flipped.
FlipHideDate(s) ==
    [ k \in 1..Len(s) |->
        [ s[k] EXCEPT !.conf.hide_pub_date = ~s[k].conf.hide_pub_date ] ]

\* The items of s without their display configuration.
Content(s) ==
    [ k \in 1..Len(s) |->
        [ f \in DOMAIN s[k] \ { "conf" } |-> s[k][f] ] ]

(***************************************************************************)
(* C20: the display toggles do not influence ordering.  A run over the     *)
(* same merged items under the same Order whose items carry a different    *)
(* display configuration (hide_pub_date set instead of unset, or any other *)
(* toggle) ends with the same final item order; a hidden publication date  *)
(* is still the Date sort key.                                             *)
(***************************************************************************)
TogglesDoNotReorder ==
    sorts = 1 =>
        LET final == Content(items)
        IN  /\ \A c \in AltConfs :
                 Content(SortByKey(config.display_by, WithConf(merged, c))) = final
            /\ Content(SortByKey(config.display_by, FlipHideDate(merged))) = final

TogglesDoNotReorderWitness ==
    /\ pc = "done" /\ sorts = 1 /\ config.display_by = "Date"
    /\ Len(merged) >= 2 /\ Len(stdout) = Len(items)
    /\ items[1] = merged[Len(merged)]
    /\ items[1].conf.hide_pub_date /\ IsSome(items[1].pub_date)
    /\ stdout[1][1] = << items[1].chan_title >>
    /\ KeyLess(items[1].pub_date, merged[1].pub_date)

\* The positions of `items` the render loop has been through.
Attempted == 1..(next - 1)

\* The positions in set, ascending.
RECURSIVE Ascending(_)
Ascending(set) ==
    IF set = { } THEN << >>
    ELSE LET m == CHOOSE x \in set : \A y \in set : x <= y
         IN  << m >> \o Ascending(set \ { m })

Rendering == pc = "render" \/ (pc = "done" /\ sorts = 1)

(***************************************************************************)
(* C16: a formatting failure on one item does not stop rendering.  The     *)
(* items of the final sequence are attempted one by one in order; an item  *)
(* whose formatting fails leaves exactly one diagnostic on stderr and no   *)
(* block on stdout, and every later item is still rendered; the run ends   *)
(* only when every item has been attempted, and it ends with success.      *)
(***************************************************************************)
FormatFailureIsSkipped ==
    Rendering =>
        LET good == Ascending(Attempted \ fmtErr)
            bad  == Attempted \cap fmtErr
        IN  /\ next \in 1..(Len(items) + 1)
            /\ stdout = [ k \in 1..Len(good) |-> Format(items[good[k]]) ]
            /\ stderr = ErrTexts \o [ k \in 1..Cardinality(bad) |-> FormatMessage ]
            /\ pc = "done" => next = Len(items) + 1 /\ result = "Ok"

FormatFailureWitness ==
    /\ pc = "done" /\ result = "Ok"
    /\ Len(items) = 2 /\ fmtErr = { 1 }
    /\ stdout = << Format(items[2]) >>
    /\ stderr = << FormatMessage >>

\* The file was read and the match of main.rs 136-148 has bound `config`.
FileMerged == pc # "load" /\ file.tag = "Yaml"

====
